---- MODULE Spec2Model ----
(***************************************************************************)
(* A model of fuelrun/update_price.py: the FuelPriceUpdate object, the     *)
(* pipeline that run() drives, the pandas tables it builds and joins, and  *)
(* the data/ directory it writes dated CSV snapshots to and reloads from.  *)
(***************************************************************************)
EXTENDS Integers, Sequences, FiniteSets, TLC

(***************************************************************************)
(* Bounds of the model.                                                    *)
(***************************************************************************)
\* the longest station list the API returns
MaxStations == 2
\* the longest price list the API returns
MaxPrices == 2
\* the number of times run() is called in one behaviour
MaxRuns == 2

(***************************************************************************)
(* Cell values.  A cell is a Python int, float, str, None or NaN; floats   *)
(* of the model are whole numbers.  Optional attributes (None or a value)  *)
(* are <<>> or <<value>>.                                                   *)
(***************************************************************************)
IntV(n) == [t |-> "int", n |-> n, s |-> ""]
FloatV(n) == [t |-> "float", n |-> n, s |-> ""]
StrV(s) == [t |-> "str", n |-> 0, s |-> s]
NoneVal == [t |-> "none", n |-> 0, s |-> ""]
NaN == [t |-> "nan", n |-> 0, s |-> ""]

None == <<>>
Some(v) == <<v>>

\* the result of a call: completed with a value, or raised an exception
Ok(v) == [exc |-> "", val |-> <<v>>]
Raise(e) == [exc |-> e, val |-> <<>>]

\* decimal text of the small integers the model uses
Digits == <<"0", "1", "2", "3", "4", "5", "6", "7", "8", "9">>
IntRange == 0 .. 9
IntToStr(n) == Digits[n + 1]
IsIntText(s) == \E n \in IntRange : IntToStr(n) = s
ParseInt(s) == CHOOSE n \in IntRange : IntToStr(n) = s
FloatToStr(n) == IntToStr(n) \o ".0"
IsFloatText(s) == \E n \in IntRange : FloatToStr(n) = s
ParseFloat(s) == CHOOSE n \in IntRange : FloatToStr(n) = s

(***************************************************************************)
(* Tables (pandas DataFrames): column names and rows of cells, in order.   *)
(***************************************************************************)
Table(cols, rows) == [cols |-> cols, rows |-> rows]

ColIndex(cols, name) == CHOOSE i \in 1 .. Len(cols) : cols[i] = name
HasCol(cols, name) == \E i \in 1 .. Len(cols) : cols[i] = name
Column(df, name) ==
    [i \in 1 .. Len(df.rows) |-> df.rows[i][ColIndex(df.cols, name)]]

RECURSIVE Flatten(_)
\* the concatenation of a sequence of sequences
Flatten(ss) == IF ss = <<>> THEN <<>> ELSE Head(ss) \o Flatten(Tail(ss))

SeqMax(ns) ==
    CHOOSE m \in {ns[i] : i \in 1 .. Len(ns)} :
        \A i \in 1 .. Len(ns) : ns[i] <= m

(***************************************************************************)
(* The JSON the price endpoint returns.  A station is an ordered mapping   *)
(* (key, value) whose 'location' value is itself a mapping; a price is a   *)
(* mapping with the key 'stationcode'.                                     *)
(***************************************************************************)
Item(k, v) == [k |-> k, v |-> v, d |-> <<>>]
Nested(k, d) == [k |-> k, v |-> NoneVal, d |-> d]

\* a station record as the API sends it; withState = FALSE leaves out the
\* trailing 'state' key (a truncated record)
Station(code, withState) ==
    LET base == << Item("brandid", StrV("b")), Item("stationid", StrV("s")),
                   Item("brand", StrV("BP")), Item("code", code),
                   Item("name", StrV("n")), Item("address", StrV("a")),
                   Nested("location", << Item("latitude", FloatV(3)),
                                         Item("longitude", FloatV(5)) >>) >>
    IN IF withState THEN Append(base, Item("state", StrV("NSW"))) ELSE base

Price(stationcode) ==
    << Item("stationcode", stationcode), Item("fueltype", StrV("E10")),
       Item("price", FloatV(7)) >>

(***************************************************************************)
(* pandas, as far as the program uses it.                                  *)
(***************************************************************************)
\* pd.DataFrame.from_dict(list of mappings): the keys of the records are
\* the columns; an empty list gives a table with no columns at all
from_dict(records) ==
    IF records = <<>> THEN Table(<<>>, <<>>)
    ELSE Table([j \in 1 .. Len(records[1]) |-> records[1][j].k],
               [i \in 1 .. Len(records) |->
                   [j \in 1 .. Len(records[i]) |-> records[i][j].v]])

\* pd.DataFrame(rows, columns=columns) for a list of lists: short rows are
\* padded with None up to the longest row, and the longest row must have
\* exactly one value per column name
DataFrame(rows, columns) ==
    IF rows = <<>> THEN Ok(Table(columns, <<>>))
    ELSE LET width == SeqMax([i \in 1 .. Len(rows) |-> Len(rows[i])])
         IN IF width # Len(columns) THEN Raise("ValueError")
            ELSE Ok(Table(columns,
                    [i \in 1 .. Len(rows) |->
                        [j \in 1 .. width |->
                            IF j <= Len(rows[i]) THEN rows[i][j]
                            ELSE NoneVal]]))

\* int(x) as Series.astype('int64') applies it to one cell
CanInt(v) == v.t \in {"int", "float"} \/ (v.t = "str" /\ IsIntText(v.s))
ToInt(v) == IF v.t = "str" THEN IntV(ParseInt(v.s)) ELSE IntV(v.n)

\* df[name] = df[name].astype('int64')
astype_int64(df, name) ==
    LET c == ColIndex(df.cols, name)
    IN IF \E i \in 1 .. Len(df.rows) : ~CanInt(df.rows[i][c])
       THEN IF \E i \in 1 .. Len(df.rows) : df.rows[i][c].t \in {"none", "nan"}
            THEN Raise("TypeError") ELSE Raise("ValueError")
       ELSE Ok(Table(df.cols,
               [i \in 1 .. Len(df.rows) |->
                   [j \in 1 .. Len(df.cols) |->
                       IF j = c THEN ToInt(df.rows[i][j])
                       ELSE df.rows[i][j]]]))

\* the dtype of a column: int64 when every cell is an int, else object
IsInt64(df, name) ==
    \A i \in 1 .. Len(df.rows) : df.rows[i][ColIndex(df.cols, name)].t = "int"

\* an int64 column that receives NaN becomes float64
Upcast(v) == IF v.t = "int" THEN FloatV(v.n) ELSE v

\* pd.merge compares the dtypes of the two key columns only when both have
\* rows, or neither: with exactly one of them empty the check is skipped
OneSideEmpty(left, right) == (left.rows = <<>>) # (right.rows = <<>>)

\* pd.merge with how='inner' in place of how='right': a right row without a
\* match is dropped
merge_inner(left, right, left_on, right_on) ==
    IF ~HasCol(left.cols, left_on) \/ ~HasCol(right.cols, right_on)
    THEN Raise("KeyError")
    ELSE IF /\ ~OneSideEmpty(left, right)
            /\ IsInt64(left, left_on) # IsInt64(right, right_on)
    THEN Raise("ValueError")
    ELSE
    LET lk == ColIndex(left.cols, left_on)
        rk == ColIndex(right.cols, right_on)
        Matches(r) == SelectSeq(left.rows, LAMBDA l : l[lk] = r[rk])
        Joined(r) == [i \in 1 .. Len(Matches(r)) |-> Matches(r)[i] \o r]
    IN Ok(Table(left.cols \o right.cols,
                Flatten([i \in 1 .. Len(right.rows) |-> Joined(right.rows[i])])))

\* pd.merge(left, right, how='right', left_on=left_on, right_on=right_on):
\* one row per (right row, matching left row), in the order of the right
\* table; a right row without a match is kept once, its left part NaN
\* an int64 key merged with a key of strings raises ValueError, unless one
\* of the two tables has no rows
merge_right(left, right, left_on, right_on) ==
    IF ~HasCol(left.cols, left_on) \/ ~HasCol(right.cols, right_on)
    THEN Raise("KeyError")
    ELSE IF /\ ~OneSideEmpty(left, right)
            /\ IsInt64(left, left_on) # IsInt64(right, right_on)
    THEN Raise("ValueError")
    ELSE
    LET lk == ColIndex(left.cols, left_on)
        rk == ColIndex(right.cols, right_on)
        Matches(r) == SelectSeq(left.rows, LAMBDA l : l[lk] = r[rk])
        Lost == \E i \in 1 .. Len(right.rows) : Matches(right.rows[i]) = <<>>
        LeftPart(l) ==
            [j \in 1 .. Len(left.cols) |->
                IF Lost /\ IsInt64(left, left.cols[j]) THEN Upcast(l[j])
                ELSE l[j]]
        Blank == [j \in 1 .. Len(left.cols) |-> NaN]
        Joined(r) ==
            IF Matches(r) = <<>> THEN << Blank \o r >>
            ELSE [i \in 1 .. Len(Matches(r)) |-> LeftPart(Matches(r)[i]) \o r]
    IN Ok(Table(left.cols \o right.cols,
                Flatten([i \in 1 .. Len(right.rows) |-> Joined(right.rows[i])])))

(***************************************************************************)
(* CSV files: a header line and data lines, each a sequence of text cells. *)
(***************************************************************************)
Format(v) ==
    CASE v.t = "int" -> IntToStr(v.n)
      [] v.t = "float" -> FloatToStr(v.n)
      [] v.t = "str" -> v.s
      [] OTHER -> ""

\* df.to_csv(path, index=True): the row index is written as a first column
\* whose header cell is empty
to_csv(df) ==
    [header |-> <<"">> \o df.cols,
     lines |-> [i \in 1 .. Len(df.rows) |->
                   <<IntToStr(i - 1)>> \o
                   [j \in 1 .. Len(df.cols) |-> Format(df.rows[i][j])]]]

\* the dtype pd.read_csv infers for one column of text cells
ParseColumn(cells) ==
    LET n == Len(cells)
    IN IF n > 0 /\ \A i \in 1 .. n : IsIntText(cells[i])
       THEN [i \in 1 .. n |-> IntV(ParseInt(cells[i]))]
       ELSE IF n > 0 /\ \A i \in 1 .. n :
                    cells[i] = "" \/ IsIntText(cells[i]) \/ IsFloatText(cells[i])
       THEN [i \in 1 .. n |->
                IF cells[i] = "" THEN NaN
                ELSE IF IsIntText(cells[i]) THEN FloatV(ParseInt(cells[i]))
                ELSE FloatV(ParseFloat(cells[i]))]
       ELSE [i \in 1 .. n |-> IF cells[i] = "" THEN NaN ELSE StrV(cells[i])]

\* pd.read_csv(path, index_col=False): no column is taken as the index, so
\* every column of the file is a data column; a column whose header cell is
\* empty is named 'Unnamed: <position>'
read_csv(file) ==
    LET w == Len(file.header)
        cols == [j \in 1 .. w |->
                    IF file.header[j] = "" THEN "Unnamed: " \o IntToStr(j - 1)
                    ELSE file.header[j]]
        parsed == [j \in 1 .. w |->
                      ParseColumn([i \in 1 .. Len(file.lines) |->
                                      file.lines[i][j]])]
    IN Table(cols, [i \in 1 .. Len(file.lines) |->
                       [j \in 1 .. w |-> parsed[j][i]]])

(***************************************************************************)
(* The working directory.  `data` is None while ./data does not exist,     *)
(* else Some(entries), entries a function from entry names to entries.  A  *)
(* name is the sequence of its character codes, so that sorted() can be    *)
(* modelled as the string comparison Python makes.  A path is <<>> for     *)
(* 'data' itself and <<name>> for 'data/<name>'.                           *)
(***************************************************************************)
CsvNames == {"stations.csv", "prices.csv", "combined.csv"}
NoFiles == [f \in {} |-> f]
NoEntries == [n \in {} |-> n]
Dir(files) == [kind |-> "dir", files |-> files]
PlainFile == [kind |-> "file", files |-> NoFiles]
Put(m, k, v) == [x \in DOMAIN m \cup {k} |-> IF x = k THEN v ELSE m[x]]

\* 'backup_'
BackupPrefix == <<98, 97, 99, 107, 117, 112, 95>>
\* 'old', an entry of data/ that is no snapshot
OldName == <<111, 108, 100>>
Dates == { [y |-> 2023, m |-> 12, d |-> 31], [y |-> 2024, m |-> 1, d |-> 2] }
DateLess(a, b) ==
    \/ a.y < b.y
    \/ a.y = b.y /\ a.m < b.m
    \/ a.y = b.y /\ a.m = b.m /\ a.d < b.d

\* datetime.strftime('%Y%m%d'): four, two and two zero-padded digits
strftime(date) ==
    LET D(k) == 48 + (k % 10)
    IN << D(date.y \div 1000), D(date.y \div 100), D(date.y \div 10), D(date.y),
          D(date.m \div 10), D(date.m), D(date.d \div 10), D(date.d) >>

\* f'backup_{today_date}'
BackupName(date) == BackupPrefix \o strftime(date)

RECURSIVE StrLess(_, _)
\* a < b for Python strings: by character code, a proper prefix first
StrLess(a, b) ==
    IF b = <<>> THEN FALSE
    ELSE IF a = <<>> THEN TRUE
    ELSE IF Head(a) # Head(b) THEN Head(a) < Head(b)
    ELSE StrLess(Tail(a), Tail(b))

RECURSIVE sorted_reverse(_)
\* sorted(names, reverse=True)
sorted_reverse(names) ==
    IF names = {} THEN <<>>
    ELSE LET top == CHOOSE n \in names : \A o \in names \ {n} : StrLess(o, n)
         IN <<top>> \o sorted_reverse(names \ {top})

\* os.path.exists
Exists(fs, path) ==
    IF path = <<>> THEN fs # None
    ELSE fs # None /\ path[1] \in DOMAIN fs[1]

\* os.mkdir
os_mkdir(fs, path) ==
    IF Exists(fs, path) THEN Raise("FileExistsError")
    ELSE IF path = <<>> THEN Ok(Some(NoEntries))
    ELSE IF fs = None THEN Raise("FileNotFoundError")
    ELSE Ok(Some(Put(fs[1], path[1], Dir(NoFiles))))

\* os.listdir('data')
os_listdir(fs) ==
    IF fs = None THEN Raise("FileNotFoundError") ELSE Ok(DOMAIN fs[1])

\* open(f'{path}/{file}') for reading
ReadFile(fs, path, file) ==
    IF ~Exists(fs, path) THEN Raise("FileNotFoundError")
    ELSE IF fs[1][path[1]].kind # "dir" THEN Raise("NotADirectoryError")
    ELSE IF file \notin DOMAIN fs[1][path[1]].files THEN Raise("FileNotFoundError")
    ELSE Ok(fs[1][path[1]].files[file])

(***************************************************************************)
(* File operations of one call thread an I/O record: the directory, the    *)
(* mkdir calls made so far, and the exception raised, if any; after an     *)
(* exception the remaining operations of the call are not executed.        *)
(***************************************************************************)
Mkdir(io, path) ==
    IF io.exc # "" THEN io
    ELSE LET r == os_mkdir(io.fs, path)
         IN [fs |-> IF r.exc = "" THEN r.val[1] ELSE io.fs,
             mkdirs |-> Append(io.mkdirs,
                               [path |-> path, existed |-> Exists(io.fs, path)]),
             exc |-> r.exc]

\* one to_csv call of save_as_csv: df.to_csv(f'{path}/{file}', index=True);
\* an attribute that is still None has no to_csv
WriteCsv(io, path, file, df) ==
    IF io.exc # "" THEN io
    ELSE IF df = None THEN [io EXCEPT !.exc = "AttributeError"]
    ELSE IF ~Exists(io.fs, path) THEN [io EXCEPT !.exc = "FileNotFoundError"]
    ELSE IF io.fs[1][path[1]].kind # "dir"
    THEN [io EXCEPT !.exc = "NotADirectoryError"]
    ELSE LET old == io.fs[1][path[1]].files
         IN [io EXCEPT !.fs =
                Some(Put(io.fs[1], path[1], Dir(Put(old, file, to_csv(df[1])))))]

\* FuelPriceUpdate.save_as_csv: the three tables, written into path in turn
save_as_csv(io, path, dfs) ==
    WriteCsv(WriteCsv(WriteCsv(io, path, "stations.csv", dfs.stations),
                      path, "prices.csv", dfs.prices),
             path, "combined.csv", dfs.working)

\* check_folder without its os.path.exists test
check_folder_always_mkdir(io, path, dfs) ==
    save_as_csv(Mkdir(io, path), path, dfs)

\* FuelPriceUpdate.check_folder
check_folder(io, path, dfs) ==
    IF Exists(io.fs, path) THEN save_as_csv(io, path, dfs)
    ELSE save_as_csv(Mkdir(io, path), path, dfs)

\* FuelPriceUpdate.export, on the directory and the date it finds
Export(io, date, dfs) ==
    LET path == << BackupName(date) >>
    IN IF Exists(io.fs, <<>>) THEN check_folder(io, path, dfs)
       ELSE check_folder(Mkdir(io, <<>>), path, dfs)

(***************************************************************************)
(* The stages of FuelPriceUpdate as functions of what they read.           *)
(***************************************************************************)
\* raw_response[key]
GetItem(raw, key) ==
    IF raw = None THEN Raise("TypeError")
    ELSE IF key \notin raw[1].keys THEN Raise("KeyError")
    ELSE Ok(raw[1][key])

\* the JSON body of a price response that carries the given keys
Body(keys, dataset) ==
    [keys |-> keys,
     prices |-> IF "prices" \in keys THEN dataset.prices ELSE <<>>,
     stations |-> IF "stations" \in keys THEN dataset.stations ELSE <<>>]

\* create_price_list that takes a missing response for an empty price list
PriceList_none_ok(raw) ==
    IF raw = None THEN Ok(from_dict(<<>>))
    ELSE IF "prices" \notin raw[1].keys THEN Raise("KeyError")
    ELSE Ok(from_dict(raw[1].prices))

\* FuelPriceUpdate.create_price_list: the table it assigns to prices_df
PriceList(raw) ==
    LET item == GetItem(raw, "prices")
    IN IF item.exc # "" THEN item ELSE Ok(from_dict(item.val[1]))

StationColumns ==
    << "brandid", "stationid", "brand", "code", "name", "address",
       "latitude", "longitude", "state" >>

\* the row create_station_list builds from one station: its values in key
\* order, the two degrees of 'location' in place of the mapping
StationRow(station) ==
    Flatten([j \in 1 .. Len(station) |->
                IF station[j].k = "location"
                THEN [i \in 1 .. Len(station[j].d) |-> station[j].d[i].v]
                ELSE << station[j].v >>])

\* create_station_list without the coercion of the code column
CoerceCode_skipped(df) == Ok(df)

\* df['code'] = df['code'].astype('int64') of create_station_list
CoerceCode(df) == astype_int64(df, "code")

\* FuelPriceUpdate.create_station_list: the table it assigns to stations_df
StationList(raw) ==
    LET item == GetItem(raw, "stations")
    IN IF item.exc # "" THEN item
       ELSE LET stations == item.val[1]
                rows == [i \in 1 .. Len(stations) |-> StationRow(stations[i])]
                df == DataFrame(rows, StationColumns)
            IN IF df.exc # "" THEN df ELSE CoerceCode(df.val[1])

\* FuelPriceUpdate.build_working_df: the table it assigns to working_df;
\* pd.merge of an attribute that is still None raises TypeError
WorkingDf(stations, prices) ==
    IF stations = None \/ prices = None THEN Raise("TypeError")
    ELSE merge_right(stations[1], prices[1], "code", "stationcode")

\* the directory read_record selects: all_subdirs[0]
LatestFolder(names) ==
    LET all_subdirs == sorted_reverse(names)
    IN IF all_subdirs = <<>> THEN Raise("IndexError") ELSE Ok(all_subdirs[1])

\* pd.read_csv(f'{path}/{file}', index_col=False)
LoadCsv(fs, path, file) ==
    LET r == ReadFile(fs, path, file)
    IN IF r.exc # "" THEN r ELSE Ok(read_csv(r.val[1]))

\* run() with the two table builders called in the other order
RunStages_swapped ==
    << "get_token", "update_data", "create_station_list", "create_price_list",
       "build_working_df", "export" >>

\* the order in which run() calls the stages of an update
RunStages ==
    << "get_token", "update_data", "create_price_list", "create_station_list",
       "build_working_df", "export" >>

\* the stage run() calls after `stage` has returned
After(stage) ==
    IF \A k \in 1 .. Len(RunStages) - 1 : RunStages[k] # stage THEN "done"
    ELSE RunStages[1 + CHOOSE k \in 1 .. Len(RunStages) - 1 : RunStages[k] = stage]

\* run() without its test of is_update
RunEntry_always_update(u) == RunStages[1]

\* the first call of run()
RunEntry(u) == IF u THEN RunStages[1] ELSE "read_record"

(***************************************************************************)
(* Inputs: the datasets the API may hold and the directories the program   *)
(* may find.                                                               *)
(***************************************************************************)
SeqsUpTo(S, n) == UNION { [1 .. k -> S] : k \in 0 .. n }

\* the 'code' values the API sends: digit strings, and one that is no number
RawCodes == { StrV("1"), StrV("2"), StrV("x") }
StationLists ==
    SeqsUpTo({ Station(c, w) : c \in RawCodes, w \in BOOLEAN }, MaxStations)
PriceLists ==
    SeqsUpTo({ Price(IntV(1)), Price(IntV(2)) }, MaxPrices)
        \cup { << Price(StrV("1")) >> }
Datasets == [stations : StationLists, prices : PriceLists]

\* a dataset of an earlier day, and the snapshot an earlier export left of it
OldDataset ==
    [stations |-> << Station(StrV("2"), TRUE) >>, prices |-> << Price(IntV(2)) >>]
Tables(dataset) ==
    LET st == StationList(Some(Body({"stations"}, dataset))).val[1]
        pr == PriceList(Some(Body({"prices"}, dataset))).val[1]
    IN [stations |-> Some(st), prices |-> Some(pr),
        working |-> Some(WorkingDf(Some(st), Some(pr)).val[1])]
OldSnapshot ==
    save_as_csv([fs |-> Some(Put(NoEntries, OldName, Dir(NoFiles))),
                 mkdirs |-> <<>>, exc |-> ""],
                << OldName >>, Tables(OldDataset)).fs[1][OldName]

\* the datasets of the specification that varies the directory: a regular
\* one, the earlier one, one with a truncated station record beside a whole
\* one, one with only a truncated record, one whose code is no number
FewDatasets ==
    { [stations |-> << Station(StrV("1"), TRUE) >>,
       prices |-> << Price(IntV(1)), Price(IntV(2)) >>],
      OldDataset,
      [stations |-> << Station(StrV("1"), TRUE), Station(StrV("2"), FALSE) >>,
       prices |-> << Price(IntV(1)) >>],
      [stations |-> << Station(StrV("1"), FALSE) >>,
       prices |-> << Price(IntV(1)) >>],
      [stations |-> << Station(StrV("x"), TRUE) >>,
       prices |-> << Price(IntV(1)) >>] }

\* the states ./data may be in: missing, or holding any of the snapshot
\* directories (empty, or written by an earlier export) and a foreign file
Directories ==
    {None} \cup
    { Some(m) : m \in UNION { [D -> {Dir(NoFiles), OldSnapshot, PlainFile}] :
                              D \in SUBSET ({BackupName(d) : d \in Dates}
                                              \cup {OldName}) } }
WellFormed(fs) ==
    fs # None =>
        \A n \in DOMAIN fs[1] : (fs[1][n] = PlainFile) <=> (n = OldName)

(***************************************************************************)
(* State.                                                                  *)
(***************************************************************************)
VARIABLES
    \* the environment
    api,              \* the dataset the price endpoint holds
    data,             \* the directory ./data
    today,            \* the date datetime.now() gives
    globals_defined,  \* whether CONTENT_TYPE, API_KEY and CUR_TIME are bound
    \* the FuelPriceUpdate object
    is_update, access_token, raw_response,
    stations_df, prices_df, working_df, combined_df,
    \* run(): the stage it is about to call, and the exception it raised
    pc, exc, runs,
    \* history of the current run
    calls,            \* the stages called, in order: what each was
                      \* answered by the network and how it ended
    requests,         \* the HTTP requests issued
    printed,          \* whether update_data printed its failure message
    mkdirs,           \* the os.mkdir calls made
    latest_folder,    \* the entry read_record selected
    entry,            \* the directory, date and attributes when run() was called
    exported          \* the directory and tables of the latest export

envvars == << api, data, today, globals_defined >>
objvars ==
    << is_update, access_token, raw_response, stations_df, prices_df,
       working_df, combined_df >>
histvars == << calls, requests, printed, mkdirs, latest_folder, entry, exported >>
vars == << envvars, objvars, pc, exc, runs, histvars >>

Idle == pc \in {"idle", "done", "raised"}

\* FuelPriceUpdate.__init__; working_df is not assigned there (combined_df
\* is), so the attribute is absent until a stage sets it
Construct(u) ==
    /\ is_update = u
    /\ access_token = None
    /\ raw_response = None
    /\ stations_df = None
    /\ prices_df = None
    /\ working_df = None
    /\ combined_df = None

InitControl ==
    /\ pc = "idle" /\ exc = "" /\ runs = 0
    /\ calls = <<>> /\ requests = <<>> /\ printed = FALSE
    /\ mkdirs = <<>>
    /\ latest_folder = None
    /\ entry = [data |-> data, today |-> today, raw_response |-> None,
                access_token |-> None]
    /\ exported = None

\* the specification that varies the directory, the date and the object
Init ==
    /\ api \in FewDatasets
    /\ data \in { fs \in Directories : WellFormed(fs) }
    /\ today \in Dates
    /\ globals_defined \in BOOLEAN
    /\ \E u \in BOOLEAN : Construct(u)
    /\ InitControl

\* the specification that varies the dataset: one updating object, run
\* repeatedly on one day
InitTables ==
    /\ api \in Datasets
    /\ data = None
    /\ today \in {d \in Dates : \A e \in Dates : ~DateLess(e, d)}
    /\ globals_defined = TRUE
    /\ Construct(TRUE)
    /\ InitControl

(***************************************************************************)
(* Actions.                                                                *)
(***************************************************************************)
\* run() with every stage call wrapped in a handler that drops the exception
Finish_swallowed(stage, input, e) ==
    /\ pc' = After(stage)
    /\ exc' = ""
    /\ calls' = Append(calls, [stage |-> stage, input |-> input, exc |-> e])

\* a stage returns to run(), which calls the next one, or raises out of it
Finish(stage, input, e) ==
    /\ pc' = IF e = "" THEN After(stage) ELSE "raised"
    /\ exc' = e
    /\ calls' = Append(calls, [stage |-> stage, input |-> input, exc |-> e])

ResetHistory ==
    /\ calls' = <<>> /\ requests' = <<>> /\ printed' = FALSE
    /\ mkdirs' = <<>> /\ latest_folder' = None

\* FuelPriceUpdate(authorization, is_update): a new object replaces the old
New ==
    /\ pc \in {"done", "raised"}
    /\ \E u \in BOOLEAN : is_update' = u
    /\ access_token' = None /\ raw_response' = None
    /\ stations_df' = None /\ prices_df' = None /\ working_df' = None
    /\ combined_df' = None
    /\ pc' = "idle" /\ exc' = ""
    /\ ResetHistory
    /\ entry' = [data |-> data, today |-> today, raw_response |-> None,
                 access_token |-> None]
    /\ UNCHANGED << envvars, runs, exported >>

\* the clock passes midnight between two runs
Tick ==
    /\ Idle
    /\ \E d \in Dates : DateLess(today, d) /\ today' = d
    /\ UNCHANGED << api, data, globals_defined, objvars, pc, exc, runs, histvars >>

\* FuelPriceUpdate.run, up to its first call
run ==
    /\ Idle
    /\ runs < MaxRuns
    /\ runs' = runs + 1
    /\ pc' = RunEntry(is_update)
    /\ exc' = ""
    /\ ResetHistory
    /\ entry' = [data |-> data, today |-> today, raw_response |-> raw_response,
                 access_token |-> access_token]
    /\ UNCHANGED << envvars, objvars, exported >>

\* what the token endpoint may answer: a body with access_token, a body
\* without it, or nothing (the request raises)
TokenResponses == {"token", "no_token", "unreachable"}

\* FuelPriceUpdate.get_token
get_token ==
    /\ pc = "get_token"
    /\ requests' = Append(requests, "token")
    /\ \E resp \in TokenResponses :
        /\ access_token' = IF resp = "token" THEN Some("t") ELSE access_token
        /\ Finish("get_token", resp,
                  CASE resp = "token" -> ""
                    [] resp = "no_token" -> "KeyError"
                    [] OTHER -> "ConnectionError")
    /\ UNCHANGED << envvars, is_update, raw_response, stations_df, prices_df,
                    working_df, combined_df, runs, printed, mkdirs,
                    latest_folder, entry, exported >>

\* what the price request may meet: a body with both lists, a body that
\* lacks one of them, a request that raises, a body that is no JSON
PriceResponses ==
    {"ok", "no_prices", "no_stations", "request_error", "json_error"}

\* update_data without its try/except
TryFetch_unguarded(raw, met, dataset) ==
    [raw |-> IF met \in {"request_error", "json_error"} THEN raw
             ELSE Some(Body(CASE met = "ok" -> {"prices", "stations"}
                              [] met = "no_prices" -> {"stations"}
                              [] OTHER -> {"prices"}, dataset)),
     sent |-> <<"prices">>, printed |-> FALSE,
     exc |-> CASE met = "request_error" -> "ConnectionError"
               [] met = "json_error" -> "JSONDecodeError"
               [] OTHER -> ""]

\* the try block of update_data: the attribute after it, the requests it
\* sent, whether the handler printed, and the exception that leaves it
TryFetch(raw, met, dataset) ==
    IF met \in {"request_error", "json_error"}
    THEN [raw |-> raw, sent |-> <<"prices">>, printed |-> TRUE, exc |-> ""]
    ELSE [raw |-> Some(Body(CASE met = "ok" -> {"prices", "stations"}
                              [] met = "no_prices" -> {"stations"}
                              [] OTHER -> {"prices"}, dataset)),
          sent |-> <<"prices">>, printed |-> FALSE, exc |-> ""]

\* FuelPriceUpdate.update_data; the headers are built before the try block
\* from three module globals the file never binds
update_data ==
    /\ pc = "update_data"
    /\ IF ~globals_defined
       THEN /\ Finish("update_data", "", "NameError")
            /\ UNCHANGED << raw_response, requests, printed >>
       ELSE \E met \in PriceResponses :
              LET r == TryFetch(raw_response, met, api)
              IN /\ raw_response' = r.raw
                 /\ requests' = requests \o r.sent
                 /\ printed' = r.printed
                 /\ Finish("update_data", met, r.exc)
    /\ UNCHANGED << envvars, is_update, access_token, stations_df, prices_df,
                    working_df, combined_df, runs, mkdirs, latest_folder,
                    entry, exported >>

\* FuelPriceUpdate.create_price_list
create_price_list ==
    /\ pc = "create_price_list"
    /\ LET r == PriceList(raw_response)
       IN /\ prices_df' = IF r.exc = "" THEN r.val ELSE prices_df
          /\ Finish("create_price_list", "", r.exc)
    /\ UNCHANGED << envvars, is_update, access_token, raw_response, stations_df,
                    working_df, combined_df, runs, requests, printed,
                    mkdirs, latest_folder, entry, exported >>

\* FuelPriceUpdate.create_station_list
create_station_list ==
    /\ pc = "create_station_list"
    /\ LET r == StationList(raw_response)
       IN /\ stations_df' = IF r.exc = "" THEN r.val ELSE stations_df
          /\ Finish("create_station_list", "", r.exc)
    /\ UNCHANGED << envvars, is_update, access_token, raw_response, prices_df,
                    working_df, combined_df, runs, requests, printed,
                    mkdirs, latest_folder, entry, exported >>

\* FuelPriceUpdate.build_working_df
build_working_df ==
    /\ pc = "build_working_df"
    /\ LET r == WorkingDf(stations_df, prices_df)
       IN /\ working_df' = IF r.exc = "" THEN r.val ELSE working_df
          /\ Finish("build_working_df", "", r.exc)
    /\ UNCHANGED << envvars, is_update, access_token, raw_response, stations_df,
                    prices_df, combined_df, runs, requests, printed,
                    mkdirs, latest_folder, entry, exported >>

\* FuelPriceUpdate.export, with check_folder and save_as_csv
export ==
    /\ pc = "export"
    /\ LET dfs == [stations |-> stations_df, prices |-> prices_df,
                   working |-> working_df]
           r == Export([fs |-> data, mkdirs |-> <<>>, exc |-> ""], today, dfs)
       IN /\ data' = r.fs
          /\ mkdirs' = r.mkdirs
          /\ exported' = IF r.exc = ""
                         THEN Some([dir |-> BackupName(today), dfs |-> dfs])
                         ELSE exported
          /\ Finish("export", "", r.exc)
    /\ UNCHANGED << api, today, globals_defined, objvars, runs, requests,
                    printed, latest_folder, entry >>

\* FuelPriceUpdate.read_record: the three tables are read in turn, and the
\* first read that raises ends the call
read_record ==
    /\ pc = "read_record"
    /\ LET names == os_listdir(data)
           latest == IF names.exc # "" THEN names ELSE LatestFolder(names.val[1])
           path == latest.val
           p == IF latest.exc # "" THEN latest
                ELSE LoadCsv(data, path, "prices.csv")
           s == IF p.exc # "" THEN p ELSE LoadCsv(data, path, "stations.csv")
           w == IF s.exc # "" THEN s ELSE LoadCsv(data, path, "combined.csv")
       IN /\ latest_folder' = latest.val
          /\ prices_df' = IF p.exc = "" THEN p.val ELSE prices_df
          /\ stations_df' = IF s.exc = "" THEN s.val ELSE stations_df
          /\ working_df' = IF w.exc = "" THEN w.val ELSE working_df
          /\ Finish("read_record", "", w.exc)
    /\ UNCHANGED << envvars, is_update, access_token, raw_response, combined_df,
                    runs, requests, printed, mkdirs, entry, exported >>

Next ==
    \/ New
    \/ Tick
    \/ run
    \/ get_token
    \/ update_data
    \/ create_price_list
    \/ create_station_list
    \/ build_working_df
    \/ export
    \/ read_record

\* the steps of one object on one day
NextTables ==
    \/ run
    \/ get_token
    \/ update_data
    \/ create_price_list
    \/ create_station_list
    \/ build_working_df
    \/ export

Spec == Init /\ [][Next]_vars
SpecTables == InitTables /\ [][NextTables]_vars

(***************************************************************************)
(* Properties.                                                             *)
(***************************************************************************)
LastCall == calls[Len(calls)]
\* the latest stage to return or raise in the current run
Ended(stage) == calls # <<>> /\ LastCall.stage = stage
Called(stage) == \E i \in 1 .. Len(calls) : calls[i].stage = stage
\* the price request of the current run raised, or its body was no JSON
FetchFailed ==
    \E i \in 1 .. Len(calls) :
        /\ calls[i].stage = "update_data"
        /\ calls[i].input \in {"request_error", "json_error"}
Rows(df) == Len(df[1].rows)
UniqueCodes(df) ==
    \A i, j \in 1 .. Rows(df) :
        Column(df[1], "code")[i] = Column(df[1], "code")[j] => i = j

\* C1, as stated: after build_working_df the combined table has exactly as
\* many rows as the prices table, whatever the stations and prices tables.
C1_RowsEqualPrices ==
    Ended("build_working_df") /\ exc = "" => Rows(working_df) = Rows(prices_df)

\* C1, amended: after build_working_df the combined table has at least as
\* many rows as the prices table, and exactly as many when no two rows of
\* the stations table share a code.
C1_RowsEqualPricesIfCodesUnique ==
    Ended("build_working_df") /\ exc = "" =>
        /\ Rows(working_df) >= Rows(prices_df)
        /\ UniqueCodes(stations_df) => Rows(working_df) = Rows(prices_df)

\* a join of two prices onto stations with distinct codes, one price matched
\* and one not
C1_Witness ==
    /\ Ended("build_working_df") /\ exc = ""
    /\ UniqueCodes(stations_df) /\ Rows(stations_df) >= 1
    /\ Rows(prices_df) >= 2
    /\ \E i, j \in 1 .. Rows(working_df) :
        /\ Column(working_df[1], "code")[i] = NaN
        /\ Column(working_df[1], "code")[j] # NaN

\* C2, as stated: a reload from the directory the latest export wrote gives
\* stations_df, prices_df and working_df equal to the tables written, in
\* columns and rows.
C2_RoundTrip ==
    /\ Ended("read_record") /\ exc = ""
    /\ exported # None /\ latest_folder = Some(exported[1].dir)
    => /\ stations_df = exported[1].dfs.stations
       /\ prices_df = exported[1].dfs.prices
       /\ working_df = exported[1].dfs.working

\* a name of the form backup_<YYYYMMDD>
IsSnapshotName(n) ==
    /\ Len(n) = Len(BackupPrefix) + 8
    /\ SubSeq(n, 1, Len(BackupPrefix)) = BackupPrefix
    /\ \A i \in Len(BackupPrefix) + 1 .. Len(n) : n[i] \in 48 .. 57

\* C3, as stated: whatever data/ holds beside a snapshot, the entry
\* read_record reads from is the backup_<YYYYMMDD> snapshot with the greatest
\* name.
C3_ReadsLatestSnapshot ==
    /\ latest_folder # None
    /\ \E n \in DOMAIN data[1] : IsSnapshotName(n)
    =>  /\ IsSnapshotName(latest_folder[1])
        /\ \A n \in DOMAIN data[1] :
              IsSnapshotName(n) => ~StrLess(latest_folder[1], n)

\* C4: when the price request raises or its body is no JSON, update_data
\* prints its message and returns to run() without an exception, leaves
\* raw_response as it was when run() was called, and has sent one request.
C4_FetchFailureSwallowed ==
    \A i \in 1 .. Len(calls) :
        /\ calls[i].stage = "update_data"
        /\ calls[i].input \in {"request_error", "json_error"}
        => /\ calls[i].exc = ""
           /\ printed
           /\ raw_response = entry.raw_response
           /\ Cardinality({k \in 1 .. Len(requests) : requests[k] = "prices"}) = 1
           /\ i = Len(calls) => pc = "create_price_list" /\ exc = ""

\* a failed fetch on an object that holds the response of an earlier run
C4_Witness ==
    /\ Ended("update_data") /\ LastCall.input = "json_error"
    /\ pc = "create_price_list"
    /\ raw_response # None

\* the 'code' value of a station record of the response
CodeOf(station) ==
    station[CHOOSE j \in 1 .. Len(station) : station[j].k = "code"].v

\* a station list with a record that has not the nine values, or whose code
\* is no number
Malformed(stations) ==
    \E i \in 1 .. Len(stations) :
        \/ Len(StationRow(stations[i])) # Len(StationColumns)
        \/ ~CanInt(CodeOf(stations[i]))

\* a station list whose longest record has not the nine values, or with a
\* record whose code is no number
Unbuildable(stations) ==
    /\ stations # <<>>
    /\ \/ \A i \in 1 .. Len(stations) :
              Len(StationRow(stations[i])) # Len(StationColumns)
       \/ \E i \in 1 .. Len(stations) : ~CanInt(CodeOf(stations[i]))

\* the station records of the response the object holds
StationsHeld ==
    IF raw_response = None \/ "stations" \notin raw_response[1].keys THEN <<>>
    ELSE raw_response[1].stations

\* the failures of C5, `bad` telling whether the station records held are
\* malformed: each makes its stage raise, the exception leaves run(), and no
\* stage is called after a stage that raised
Unhandled(bad) ==
    /\ \A i \in 1 .. Len(calls) - 1 : calls[i].exc = ""
    /\ pc = "raised" <=> (calls # <<>> /\ LastCall.exc # "")
    /\ pc = "raised" => exc = LastCall.exc
    /\ Ended("get_token") /\ LastCall.input = "no_token" => pc = "raised"
    /\ Ended("create_price_list") /\ raw_response # None
          /\ "prices" \notin raw_response[1].keys => pc = "raised"
    /\ Ended("create_station_list") /\ raw_response # None
          /\ "stations" \notin raw_response[1].keys => pc = "raised"
    /\ Ended("create_station_list") /\ bad => pc = "raised"
    /\ Ended("read_record") /\ (data = None \/ data = Some(NoEntries))
          => pc = "raised"

\* C5, as stated: a token response without access_token, a price response
\* without 'prices' or 'stations' or with malformed station records, and a
\* missing or empty data directory each end run() with the exception, and
\* no stage after the failing one is executed.
C5_FailuresRaise == Unhandled(Malformed(StationsHeld))

\* C5, amended: the same, for the station records create_station_list fails
\* on: a list whose longest record has not the nine values, or with a code
\* that is no number.  (A record that lacks trailing values beside a record
\* that has all nine is padded with None and raises nothing.)
C5_FailuresRaiseWhenUnbuildable == Unhandled(Unbuildable(StationsHeld))

\* create_station_list raised on the station records, and run() with it
C5_Witness ==
    /\ Ended("create_station_list") /\ pc = "raised" /\ exc = "ValueError"
    /\ Unbuildable(StationsHeld)

\* C6: an update-mode run calls get_token, update_data, create_price_list,
\* create_station_list, build_working_df, export in this order, each at most
\* once, and calls a stage only after every earlier one has returned.
C6_StraightLine ==
    LET order == << "get_token", "update_data", "create_price_list",
                    "create_station_list", "build_working_df", "export" >>
    IN is_update =>
        /\ Len(calls) <= Len(order)
        /\ \A i \in 1 .. Len(calls) : calls[i].stage = order[i]
        /\ \A i \in 1 .. Len(calls) - 1 : calls[i].exc = ""
        /\ pc \notin {"idle", "done", "raised"} => pc = order[Len(calls) + 1]
        /\ pc = "done" => Len(calls) = Len(order)

\* an update-mode run that went through all six stages
C6_Witness == is_update /\ pc = "done" /\ Len(calls) = 6 /\ exc = ""

\* C7: whenever build_working_df is about to run or has run in a run,
\* create_station_list has returned before it in that run and every value of
\* stations_df.code is an integer.
C7_CodeIsIntegerAtMerge ==
    pc = "build_working_df" \/ Called("build_working_df") =>
        /\ \E i \in 1 .. Len(calls) :
              /\ calls[i].stage = "create_station_list" /\ calls[i].exc = ""
              /\ \A j \in 1 .. Len(calls) :
                    calls[j].stage = "build_working_df" => i < j
        /\ stations_df # None
        /\ \A k \in 1 .. Rows(stations_df) :
              Column(stations_df[1], "code")[k].t = "int"

\* the merge is about to run on stations whose codes arrived as strings
C7_Witness ==
    /\ pc = "build_working_df"
    /\ Rows(stations_df) = MaxStations
    /\ \A i \in 1 .. Len(raw_response[1].stations) :
          CodeOf(raw_response[1].stations[i]).t = "str"

\* the three files save_as_csv writes from the tables of the object
Snapshot ==
    Dir([f \in CsvNames |->
            CASE f = "stations.csv" -> to_csv(stations_df[1])
              [] f = "prices.csv" -> to_csv(prices_df[1])
              [] OTHER -> to_csv(working_df[1])])

\* C8: whether data/ and data/backup_<today> existed or not, export returns
\* without an exception, has called os.mkdir exactly for those of the two
\* that were missing, and leaves in data/backup_<today> exactly the three
\* files of this run; nothing else under data/ is added or changed.
C8_ExportCreatesWhatIsMissing ==
    Ended("export") =>
        LET name == BackupName(entry.today)
            before == IF entry.data = None THEN NoEntries ELSE entry.data[1]
        IN /\ pc = "done" /\ exc = ""
           /\ mkdirs =
                (IF entry.data = None
                 THEN << [path |-> <<>>, existed |-> FALSE] >> ELSE <<>>)
                \o (IF name \notin DOMAIN before
                    THEN << [path |-> <<name>>, existed |-> FALSE] >> ELSE <<>>)
           /\ data # None
           /\ DOMAIN data[1] = DOMAIN before \cup {name}
           /\ \A n \in DOMAIN before \ {name} : data[1][n] = before[n]
           /\ data[1][name] = Snapshot

\* an export on a date whose snapshot an earlier export had written
C8_Witness ==
    /\ Ended("export") /\ pc = "done"
    /\ entry.data # None
    /\ BackupName(entry.today) \in DOMAIN entry.data[1]
    /\ entry.data[1][BackupName(entry.today)] = OldSnapshot
    /\ data[1][BackupName(entry.today)] # OldSnapshot
    /\ mkdirs = <<>>

\* C9, as stated: an update-mode run whose price fetch fails never reaches
\* export and leaves the directories and files under data/ as they were.
C9_FailedFetchWritesNothing ==
    is_update /\ FetchFailed =>
        /\ ~Called("export")
        /\ data = entry.data

\* C9, amended: an update-mode run whose price fetch fails, on an object
\* whose raw_response was None when run() was called, leaves raw_response
\* None, has create_price_list raise, never reaches export and leaves data/
\* as it was.
C9_FailedFetchOnFreshObjectWritesNothing ==
    is_update /\ FetchFailed /\ entry.raw_response = None =>
        /\ raw_response = None
        /\ \A i \in 1 .. Len(calls) :
              calls[i].stage = "create_price_list" => calls[i].exc = "TypeError"
        /\ ~Called("export")
        /\ data = entry.data

\* the run of a fresh object that ended in create_price_list after a failed
\* fetch
C9_Witness ==
    /\ is_update /\ FetchFailed /\ entry.raw_response = None
    /\ Ended("create_price_list") /\ pc = "raised"

\* C10: a reload-mode object sends no HTTP request, keeps access_token and
\* raw_response None, creates and changes nothing under data/, and calls
\* only read_record, which loads the three CSVs of the entry it selected.
C10_ReloadHasNoEffects ==
    ~is_update =>
        /\ requests = <<>>
        /\ access_token = None /\ raw_response = None
        /\ data = entry.data /\ mkdirs = <<>>
        /\ \A i \in 1 .. Len(calls) : calls[i].stage = "read_record"
        /\ pc = "done" =>
              /\ latest_folder # None
              /\ LET files == data[1][latest_folder[1]].files
                 IN /\ prices_df = Some(read_csv(files["prices.csv"]))
                    /\ stations_df = Some(read_csv(files["stations.csv"]))
                    /\ working_df = Some(read_csv(files["combined.csv"]))

\* a reload-mode run that loaded a snapshot
C10_Witness == ~is_update /\ pc = "done" /\ Ended("read_record")

====
